---- MODULE Spec2Model ----
(***************************************************************************)
(* A model of the CHIP-8 virtual machine of src/src/cpu.rs (struct Chip8)  *)
(* and of the host program src/src/main.rs that drives it.                 *)
(*                                                                         *)
(* The machine is modelled field by field.  Every method of Chip8 is an    *)
(* operator from a machine record `self` to the machine record it leaves   *)
(* behind; the public methods (load_game, emulate_cycle, draw_flag,        *)
(* set_keys) are the actions.  A Rust panic ends the process: the record   *)
(* field `alive` is FALSE from then on and nothing more happens.           *)
(* Integer overflow of `+`, `-` and `+=` panics in a build with overflow   *)
(* checks (debug) and wraps in a build without (release): the field        *)
(* overflow_checks is chosen once, when the process starts.                *)
(***************************************************************************)
EXTENDS Integers, Sequences, FiniteSets, TLC

VARIABLES
    opcode,           \* Chip8.opcode          cpu.rs:10
    memory,           \* Chip8.memory          cpu.rs:15
    v,                \* Chip8.v               cpu.rs:16
    i,                \* Chip8.i               cpu.rs:17
    pc,               \* Chip8.pc              cpu.rs:18
    gfx,              \* Chip8.gfx             cpu.rs:19
    delay_timer,      \* Chip8.delay_timer     cpu.rs:21
    sound_timer,      \* Chip8.sound_timer     cpu.rs:22
    stack,            \* Chip8.stack           cpu.rs:23
    sp,               \* Chip8.sp              cpu.rs:24
    keys,             \* Chip8.keys            cpu.rs:25
    screen_updated,   \* Chip8.screen_updated  cpu.rs:26
    alive,            \* FALSE once the process has panicked
    overflow_checks,  \* the build: TRUE = overflow panics, FALSE = overflow wraps
    loads,            \* how many times load_game has been called
    last,             \* the last call of the host: its name, argument and return value as text
    trace             \* the machine as it was before each of the last emulate_cycle calls

vars == <<opcode, memory, v, i, pc, gfx, delay_timer, sound_timer, stack, sp,
          keys, screen_updated, alive, overflow_checks, loads, last, trace>>

(***************************************************************************)
(* Program constants.                                                      *)
(***************************************************************************)
U8Mod == 256
U16Mod == 65536
MemSize == 4096
NumRegs == 16
GfxWidth == 64
GfxHeight == 32
StackSize == 16
NumKeys == 16
FontLen == 80
ProgStart == 512
BufferLen == 3584
KeyDown == 255

(***************************************************************************)
(* Bounds of the model.                                                    *)
(***************************************************************************)
\* how many emulate_cycle calls back the history variable `trace` remembers
TraceLen == 2

(***************************************************************************)
(* Bit operations on naturals (Rust's &, |, ^ on u8 and u16).              *)
(***************************************************************************)
RECURSIVE BitAnd(_, _)
BitAnd(a, b) ==
    IF a = 0 \/ b = 0 THEN 0
    ELSE (a % 2) * (b % 2) + 2 * BitAnd(a \div 2, b \div 2)

RECURSIVE BitOr(_, _)
BitOr(a, b) ==
    IF a = 0 THEN b
    ELSE IF b = 0 THEN a
    ELSE (IF a % 2 = 1 \/ b % 2 = 1 THEN 1 ELSE 0) + 2 * BitOr(a \div 2, b \div 2)

RECURSIVE BitXor(_, _)
BitXor(a, b) ==
    IF a = 0 THEN b
    ELSE IF b = 0 THEN a
    ELSE ((a + b) % 2) + 2 * BitXor(a \div 2, b \div 2)

Min(a, b) == IF a <= b THEN a ELSE b

(***************************************************************************)
(* The glyph set.                                                          *)
(***************************************************************************)
CHIP8_FONTSET ==
    << 240, 144, 144, 144, 240,
        32,  96,  32,  32, 112,
       240,  16, 240, 128, 240,
       240,  16, 240,  16, 240,
       144, 144, 240,  16,  16,
       240, 128, 240,  16, 240,
       240, 128, 240, 144, 240,
       240,  16,  32,  64,  64,
       240, 144, 240, 144, 240,
       240, 144, 240,  16, 240,
       240, 144, 240, 144, 144,
       224, 144, 224, 144, 224,
       240, 128, 128, 128, 240,
       224, 144, 144, 144, 224,
       240, 128, 240, 128, 240,
       240, 128, 240, 128, 128 >>

(***************************************************************************)
(* Chip8::default(): the machine after construction.                       *)
(***************************************************************************)
Default(checks) ==
    [ opcode         |-> 0,
      memory         |-> [a \in 0..(MemSize - 1) |->
                             IF a < FontLen THEN CHIP8_FONTSET[a + 1] ELSE 0],
      v              |-> [r \in 0..(NumRegs - 1) |-> 0],
      i              |-> 0,
      pc             |-> ProgStart,
      gfx            |-> [row \in 0..(GfxHeight - 1) |->
                             [col \in 0..(GfxWidth - 1) |-> 0]],
      delay_timer    |-> 0,
      sound_timer    |-> 0,
      stack          |-> [s \in 0..(StackSize - 1) |-> 0],
      sp             |-> 0,
      keys           |-> [k \in 0..(NumKeys - 1) |-> 0],
      screen_updated |-> FALSE,
      alive          |-> TRUE,
      overflow_checks |-> checks ]

\* The machine held in the variables.
Self ==
    [ opcode         |-> opcode,
      memory         |-> memory,
      v              |-> v,
      i              |-> i,
      pc             |-> pc,
      gfx            |-> gfx,
      delay_timer    |-> delay_timer,
      sound_timer    |-> sound_timer,
      stack          |-> stack,
      sp             |-> sp,
      keys           |-> keys,
      screen_updated |-> screen_updated,
      alive          |-> alive,
      overflow_checks |-> overflow_checks ]

\* The variables take the machine m.
Becomes(m) ==
    /\ opcode' = m.opcode
    /\ memory' = m.memory
    /\ v' = m.v
    /\ i' = m.i
    /\ pc' = m.pc
    /\ gfx' = m.gfx
    /\ delay_timer' = m.delay_timer
    /\ sound_timer' = m.sound_timer
    /\ stack' = m.stack
    /\ sp' = m.sp
    /\ keys' = m.keys
    /\ screen_updated' = m.screen_updated
    /\ alive' = m.alive
    /\ overflow_checks' = m.overflow_checks

\* panic!(), an index out of bounds, or an overflow in a checked build.
Panic(self) == [self EXCEPT !.alive = FALSE]

\* What an integer operation leaves: the wrapped value, and whether it panics
\* (the exact result n is outside 0..modulus-1 and the build checks overflow).
Arith(self, n, modulus) ==
    [ panics |-> (n < 0 \/ n >= modulus) /\ self.overflow_checks,
      val    |-> n % modulus ]

\* An advance by one byte instead of one instruction word.
AdvancePcByOne(self) ==
    IF ~self.alive THEN self
    ELSE LET r == Arith(self, self.pc + 1, U16Mod)
         IN  IF r.panics THEN Panic(self) ELSE [self EXCEPT !.pc = r.val]

\* self.pc += 2
AdvancePc(self) ==
    IF ~self.alive THEN self
    ELSE LET r == Arith(self, self.pc + 2, U16Mod)
         IN  IF r.panics THEN Panic(self) ELSE [self EXCEPT !.pc = r.val]

(***************************************************************************)
(* load_game.  A file is [opens, reads, bytes]: whether File::open and     *)
(* file.read succeed, and the file's content.  One read into the 3584-byte *)
(* buffer delivers the first min(len, 3584) bytes of a regular file.       *)
(***************************************************************************)
\* A load whose copy loop stops one byte short of the buffer's end.
load_game_one_short(self, file) ==
    IF ~file.opens \/ ~file.reads THEN [m |-> self, result |-> "Err"]
    ELSE [ m |-> [self EXCEPT !.memory =
                    [a \in 0..(MemSize - 1) |->
                        IF a >= ProgStart /\ a < ProgStart + BufferLen - 1
                        THEN IF a - ProgStart < Len(file.bytes)
                             THEN file.bytes[a - ProgStart + 1] ELSE 0
                        ELSE self.memory[a]]],
           result |-> "Ok" ]

\* A load that also restarts the program: pc back to 0x200, stack emptied.
load_game_restarts(self, file) ==
    IF ~file.opens \/ ~file.reads THEN [m |-> self, result |-> "Err"]
    ELSE [ m |-> [self EXCEPT !.pc = ProgStart, !.sp = 0, !.memory =
                    [a \in 0..(MemSize - 1) |->
                        IF a >= ProgStart /\ a < ProgStart + BufferLen
                        THEN IF a - ProgStart < Min(Len(file.bytes), BufferLen)
                             THEN file.bytes[a - ProgStart + 1] ELSE 0
                        ELSE self.memory[a]]],
           result |-> "Ok" ]

\* A load that clears the program region before it reads the file, and so
\* leaves it cleared when the read fails.
load_game_clears_first(self, file) ==
    IF ~file.opens THEN [m |-> self, result |-> "Err"]
    ELSE IF ~file.reads
    THEN [ m |-> [self EXCEPT !.memory =
                    [a \in 0..(MemSize - 1) |->
                        IF a >= ProgStart THEN 0 ELSE self.memory[a]]],
           result |-> "Err" ]
    ELSE [ m |-> [self EXCEPT !.memory =
                    [a \in 0..(MemSize - 1) |->
                        IF a >= ProgStart /\ a < ProgStart + BufferLen
                        THEN IF a - ProgStart < Min(Len(file.bytes), BufferLen)
                             THEN file.bytes[a - ProgStart + 1] ELSE 0
                        ELSE self.memory[a]]],
           result |-> "Ok" ]

\* A load that also blanks the framebuffer.
load_game_clears_screen(self, file) ==
    IF ~file.opens \/ ~file.reads THEN [m |-> self, result |-> "Err"]
    ELSE [ m |-> [self EXCEPT
                    !.gfx = [row \in 0..(GfxHeight - 1) |->
                                [col \in 0..(GfxWidth - 1) |-> 0]],
                    !.memory =
                      [a \in 0..(MemSize - 1) |->
                          IF a >= ProgStart /\ a < ProgStart + BufferLen
                          THEN IF a - ProgStart < Min(Len(file.bytes), BufferLen)
                               THEN file.bytes[a - ProgStart + 1] ELSE 0
                          ELSE self.memory[a]]],
           result |-> "Ok" ]

load_game(self, file) ==
    IF ~file.opens THEN [m |-> self, result |-> "Err"]
    ELSE IF ~file.reads THEN [m |-> self, result |-> "Err"]
    ELSE
        LET size == Min(Len(file.bytes), BufferLen)
            buffer == [k \in 0..(BufferLen - 1) |->
                          IF k < size THEN file.bytes[k + 1] ELSE 0]
        IN  [ m |-> [self EXCEPT !.memory =
                        [a \in 0..(MemSize - 1) |->
                            IF a >= ProgStart /\ a < ProgStart + BufferLen
                            THEN buffer[a - ProgStart]
                            ELSE self.memory[a]]],
              result |-> "Ok" ]

(***************************************************************************)
(* The instructions.                                                       *)
(***************************************************************************)
\* A return that decrements sp first and reads the slot it then points at.
return_subroutine_pops_below(self) ==
    LET s1 == IF self.sp > 0 THEN [self EXCEPT !.sp = @ - 1] ELSE self
    IN  IF s1.sp >= StackSize THEN Panic(s1)
        ELSE [s1 EXCEPT !.pc = s1.stack[s1.sp]]

return_subroutine(self) ==
    IF self.sp >= StackSize THEN Panic(self)
    ELSE LET s1 == [self EXCEPT !.pc = self.stack[self.sp]]
         IN  IF s1.sp > 0 THEN [s1 EXCEPT !.sp = @ - 1] ELSE s1

\* A call that pushes the address of the call itself instead of the next one.
call_subroutine_pushes_pc(self, nnn) ==
    LET inc == Arith(self, self.sp + 1, U8Mod)
        s1 == [self EXCEPT !.sp = inc.val]
    IN  IF inc.panics THEN Panic(self)
        ELSE IF s1.sp >= StackSize THEN Panic(s1)
        ELSE [s1 EXCEPT !.stack[s1.sp] = self.pc, !.pc = nnn]

\* A call that writes the slot sp names and increments sp afterwards.
call_subroutine_fills_slot_0(self, nnn) ==
    LET inc == Arith(self, self.sp + 1, U8Mod)
        ret == Arith(self, self.pc + 2, U16Mod)
    IN  IF ret.panics \/ self.sp >= StackSize THEN Panic(self)
        ELSE IF inc.panics THEN Panic(self)
        ELSE [self EXCEPT !.stack[self.sp] = ret.val, !.sp = inc.val, !.pc = nnn]

call_subroutine_at_nnn(self, nnn) ==
    LET inc == Arith(self, self.sp + 1, U8Mod)
        s1 == [self EXCEPT !.sp = inc.val]
        ret == Arith(self, self.pc + 2, U16Mod)
    IN  IF inc.panics THEN Panic(self)
        ELSE IF ret.panics \/ s1.sp >= StackSize THEN Panic(s1)
        ELSE [s1 EXCEPT !.stack[s1.sp] = ret.val, !.pc = nnn]

skip_if_vx_equals_nn(self, x, nn) ==
    AdvancePc(IF self.v[x] = nn THEN AdvancePc(self) ELSE self)

\* A skip-ne-imm that skips on equality, as skip-eq-imm does.
skip_if_vx_not_equal_nn_as_equal(self, x, nn) ==
    AdvancePc(IF self.v[x] = nn THEN AdvancePc(self) ELSE self)

skip_if_vx_not_equal_nn(self, x, nn) ==
    AdvancePc(IF self.v[x] # nn THEN AdvancePc(self) ELSE self)

skip_if_vx_equals_vy(self, x, y) ==
    AdvancePc(IF self.v[x] = self.v[y] THEN AdvancePc(self) ELSE self)

vx_equals_nn(self, x, nn) ==
    AdvancePc([self EXCEPT !.v[x] = nn])

\* An add-imm that follows the flag convention: V[0xF] takes the carry.
vx_plus_equals_nn_sets_carry(self, x, nn) ==
    LET s1 == [self EXCEPT !.v[15] = IF self.v[x] + nn >= U8Mod THEN 1 ELSE 0]
    IN  AdvancePc([s1 EXCEPT !.v[x] = (self.v[x] + nn) % U8Mod])

vx_plus_equals_nn(self, x, nn) ==
    AdvancePc(IF self.v[x] + nn >= U8Mod
              THEN [self EXCEPT !.v[x] = ((self.v[x] + nn) % 256) % U8Mod]
              ELSE [self EXCEPT !.v[x] = self.v[x] + nn])

vx_assign_vy(self, x, y) ==
    AdvancePc([self EXCEPT !.v[x] = self.v[y]])

vx_assign_or_vy(self, x, y) ==
    AdvancePc([self EXCEPT !.v[x] = BitOr(self.v[x], self.v[y])])

vx_assign_and_vy(self, x, y) ==
    AdvancePc([self EXCEPT !.v[x] = BitAnd(self.v[x], self.v[y])])

vx_assign_xor_vy(self, x, y) ==
    AdvancePc([self EXCEPT !.v[x] = BitXor(self.v[x], self.v[y])])

\* The flag is written first; both operands are read again afterwards.
vx_assign_plus_vy(self, x, y) ==
    IF self.v[x] > 255 - self.v[y]
    THEN LET s1 == [self EXCEPT !.v[15] = 1]
             r == Arith(s1, (s1.v[y] + s1.v[x]) - 256, U16Mod)
         IN  IF r.panics THEN Panic(s1)
             ELSE AdvancePc([s1 EXCEPT !.v[x] = r.val % U8Mod])
    ELSE LET s1 == [self EXCEPT !.v[15] = 0]
             r == Arith(s1, s1.v[x] + s1.v[y], U8Mod)
         IN  IF r.panics THEN Panic(s1)
             ELSE AdvancePc([s1 EXCEPT !.v[x] = r.val])

\* vx and vy are read for the comparison; the operands of the subtraction
\* are read again after the flag is written.
vx_assign_minus_vy(self, x, y) ==
    LET vx == self.v[x]
        vy == self.v[y]
    IN  IF vx < vy
        THEN LET s1 == [self EXCEPT !.v[15] = 0]
                 r == Arith(s1, (s1.v[x] + 256) - s1.v[y], U16Mod)
             IN  IF r.panics THEN Panic(s1)
                 ELSE AdvancePc([s1 EXCEPT !.v[x] = r.val % U8Mod])
        ELSE LET s1 == [self EXCEPT !.v[15] = 1]
                 r == Arith(s1, s1.v[x] - s1.v[y], U8Mod)
             IN  IF r.panics THEN Panic(s1)
                 ELSE AdvancePc([s1 EXCEPT !.v[x] = r.val])

vx_assign_rshift(self, x) ==
    LET s1 == [self EXCEPT !.v[15] = BitAnd(self.v[x], 1)]
    IN  AdvancePc([s1 EXCEPT !.v[x] = s1.v[x] \div 2])

vx_assign_vy_minus_vx(self, x, y) ==
    LET vx == self.v[x]
        vy == self.v[y]
    IN  IF vy < vx
        THEN LET s1 == [self EXCEPT !.v[15] = 0]
                 r == Arith(s1, (s1.v[y] + 256) - s1.v[x], U16Mod)
             IN  IF r.panics THEN Panic(s1)
                 ELSE AdvancePc([s1 EXCEPT !.v[x] = r.val % U8Mod])
        ELSE LET s1 == [self EXCEPT !.v[15] = 1]
                 r == Arith(s1, s1.v[y] - s1.v[x], U8Mod)
             IN  IF r.panics THEN Panic(s1)
                 ELSE AdvancePc([s1 EXCEPT !.v[x] = r.val])

\* A shift-left that takes the flag from the value already shifted.
vx_assign_lshift_flag_after(self, x) ==
    LET s1 == [self EXCEPT !.v[x] = (self.v[x] * 2) % U8Mod]
    IN  AdvancePc([s1 EXCEPT !.v[15] = s1.v[x] \div 128])

vx_assign_lshift(self, x) ==
    LET s1 == [self EXCEPT !.v[15] = self.v[x] \div 128]
    IN  AdvancePc([s1 EXCEPT !.v[x] = (s1.v[x] * 2) % U8Mod])

\* Reads x and y out of self.opcode itself.
skip_if_vx_not_equal_vy(self) ==
    AdvancePc(IF self.v[BitAnd(self.opcode, 3840) \div 256]
                 # self.v[BitAnd(self.opcode, 240) \div 16]
              THEN AdvancePc(self) ELSE self)

\* A rand-mask that leaves pc where it is.
vx_equals_rand_keeps_pc(self, x, nn, r) ==
    [self EXCEPT !.v[x] = BitAnd(r, nn)]

\* r is the byte rand::thread_rng().gen_range(0..=255) delivers.
vx_equals_rand(self, x, nn, r) ==
    AdvancePc([self EXCEPT !.v[x] = BitAnd(r, nn)])

(***************************************************************************)
(* draw.  The inner loop reads self.v[x] anew for every pixel and the      *)
(* outer loop reads self.v[y] anew for every row, after the flag register  *)
(* has been reset and while it collects collisions.                        *)
(***************************************************************************)
\* An inner loop that ORs the sprite bit into the pixel instead of XORing it.
RECURSIVE draw_pixels_or(_, _, _, _, _)
draw_pixels_or(self, x, vy, sprite, pixel) ==
    IF pixel >= 8 THEN self
    ELSE
        LET vx == (self.v[x] + pixel) % 64
            color == BitAnd(sprite \div (2 ^ (7 - pixel)), 1)
        IN  IF vy >= GfxHeight \/ vx >= GfxWidth THEN Panic(self)
            ELSE draw_pixels_or(
                    [self EXCEPT
                        !.v[15] = BitOr(self.v[15], BitAnd(color, self.gfx[vy][vx])),
                        !.gfx[vy][vx] = BitOr(self.gfx[vy][vx], color)],
                    x, vy, sprite, pixel + 1)

\* An inner loop that does not wrap the column.
RECURSIVE draw_pixels_no_wrap(_, _, _, _, _)
draw_pixels_no_wrap(self, x, vy, sprite, pixel) ==
    IF pixel >= 8 THEN self
    ELSE
        LET vx == self.v[x] + pixel
            color == BitAnd(sprite \div (2 ^ (7 - pixel)), 1)
        IN  IF vy >= GfxHeight \/ vx >= GfxWidth THEN Panic(self)
            ELSE draw_pixels_no_wrap(
                    [self EXCEPT
                        !.v[15] = BitOr(self.v[15], BitAnd(color, self.gfx[vy][vx])),
                        !.gfx[vy][vx] = BitXor(self.gfx[vy][vx], color)],
                    x, vy, sprite, pixel + 1)

\* An inner loop that XORs the shifted sprite byte into the pixel without
\* masking it to its lowest bit.
RECURSIVE draw_pixels_unmasked(_, _, _, _, _)
draw_pixels_unmasked(self, x, vy, sprite, pixel) ==
    IF pixel >= 8 THEN self
    ELSE
        LET vx == (self.v[x] + pixel) % 64
            color == sprite \div (2 ^ (7 - pixel))
        IN  IF vy >= GfxHeight \/ vx >= GfxWidth THEN Panic(self)
            ELSE draw_pixels_unmasked(
                    [self EXCEPT
                        !.v[15] = BitOr(self.v[15], BitAnd(color, self.gfx[vy][vx])),
                        !.gfx[vy][vx] = BitXor(self.gfx[vy][vx], color)],
                    x, vy, sprite, pixel + 1)

\* lines 456-462, from bit `pixel` of the sprite byte on
RECURSIVE draw_pixels(_, _, _, _, _)
draw_pixels(self, x, vy, sprite, pixel) ==
    IF pixel >= 8 THEN self
    ELSE
        LET vx == (self.v[x] + pixel) % 64
            color == BitAnd(sprite \div (2 ^ (7 - pixel)), 1)
        IN  IF vy >= GfxHeight \/ vx >= GfxWidth THEN Panic(self)
            ELSE draw_pixels(
                    [self EXCEPT
                        !.v[15] = BitOr(self.v[15], BitAnd(color, self.gfx[vy][vx])),
                        !.gfx[vy][vx] = BitXor(self.gfx[vy][vx], color)],
                    x, vy, sprite, pixel + 1)

\* lines 449-463, from sprite row `row` on
RECURSIVE draw_rows(_, _, _, _, _)
draw_rows(self, x, y, n, row) ==
    IF row >= n THEN self
    ELSE
        LET vy == (self.v[y] + row) % 32
            addr == Arith(self, self.i + row, U16Mod)
        IN  IF addr.panics \/ addr.val >= MemSize THEN Panic(self)
            ELSE LET s1 == draw_pixels(self, x, vy, self.memory[addr.val], 0)
                 IN  IF ~s1.alive THEN s1
                     ELSE draw_rows(s1, x, y, n, row + 1)

\* A draw that does not reset the flag register before it collects collisions.
draw_without_flag_reset(self, x, y, n) ==
    LET s1 == draw_rows(self, x, y, n, 0)
    IN  IF ~s1.alive THEN s1
        ELSE AdvancePc([s1 EXCEPT !.screen_updated = TRUE])

draw(self, x, y, n) ==
    LET s1 == draw_rows([self EXCEPT !.v[15] = 0], x, y, n, 0)
    IN  IF ~s1.alive THEN s1
        ELSE AdvancePc([s1 EXCEPT !.screen_updated = TRUE])

\* A skip-key-pressed that takes the key index modulo 16.
skip_if_key_pressed_masks(self, x) ==
    AdvancePc(IF self.keys[self.v[x] % NumKeys] # 0 THEN AdvancePc(self) ELSE self)

skip_if_key_pressed(self, x) ==
    IF self.v[x] >= NumKeys THEN Panic(self)
    ELSE AdvancePc(IF self.keys[self.v[x]] # 0 THEN AdvancePc(self) ELSE self)

skip_if_key_not_pressed(self, x) ==
    IF self.v[x] >= NumKeys THEN Panic(self)
    ELSE AdvancePc(IF self.keys[self.v[x]] = 0 THEN AdvancePc(self) ELSE self)

vx_assign_delay(self, x) ==
    AdvancePc([self EXCEPT !.v[x] = self.delay_timer])

\* A read-key that advances pc whether or not a key is down.
vx_assign_key_always_advances(self, x) ==
    IF \E k \in 0..(NumKeys - 1) : self.keys[k] = KeyDown
    THEN LET first == CHOOSE k \in 0..(NumKeys - 1) :
                          /\ self.keys[k] # 0
                          /\ \A j \in 0..(k - 1) : self.keys[j] = 0
         IN  AdvancePc([self EXCEPT !.v[x] = first])
    ELSE AdvancePc(self)

\* Proceeds only when some key holds 255; then takes the first nonzero key.
vx_assign_key(self, x) ==
    IF \E k \in 0..(NumKeys - 1) : self.keys[k] = KeyDown
    THEN LET first == CHOOSE k \in 0..(NumKeys - 1) :
                          /\ self.keys[k] # 0
                          /\ \A j \in 0..(k - 1) : self.keys[j] = 0
         IN  AdvancePc([self EXCEPT !.v[x] = first])
    ELSE self

set_delay_timer(self, x) ==
    AdvancePc([self EXCEPT !.delay_timer = self.v[x]])

set_sound_timer(self, x) ==
    AdvancePc([self EXCEPT !.sound_timer = self.v[x]])

index_assign_plus_vx(self, x) ==
    LET r == Arith(self, self.i + self.v[x], U16Mod)
    IN  IF r.panics THEN Panic(self)
        ELSE AdvancePc([self EXCEPT !.i = r.val])

index_assign_sprite(self, x) ==
    AdvancePc([self EXCEPT !.i = BitAnd(self.v[x], 15) * 5])

\* A store whose address wraps around the end of memory.
store_wraps(self, addr, val) ==
    IF ~self.alive THEN self
    ELSE [self EXCEPT !.memory[addr % MemSize] = val]

\* self.memory[addr] = val, an index out of bounds panicking
store(self, addr, val) ==
    IF ~self.alive THEN self
    ELSE IF addr >= MemSize THEN Panic(self)
    ELSE [self EXCEPT !.memory[addr] = val]

\* A store-bcd whose tens digit is V[x] / 10, the hundreds not taken off.
set_bcd_tens_of_all(self, x) ==
    LET s1 == store(self, self.i, self.v[x] \div 100)
        s2 == store(s1, self.i + 1, self.v[x] \div 10)
        s3 == store(s2, self.i + 2, self.v[x] % 10)
    IN  AdvancePc(s3)

set_bcd(self, x) ==
    LET s1 == store(self, self.i, self.v[x] \div 100)
        s2 == store(s1, self.i + 1, (self.v[x] % 100) \div 10)
        s3 == store(s2, self.i + 2, self.v[x] % 10)
    IN  AdvancePc(s3)

\* lines 547-549, from register `reg` on
RECURSIVE reg_dump_from(_, _, _)
reg_dump_from(self, x, reg) ==
    IF reg > x \/ ~self.alive THEN self
    ELSE reg_dump_from(store(self, self.i + reg, self.v[reg]), x, reg + 1)

\* A dump that leaves I behind the last cell it wrote.
reg_dump_moves_index(self, x) ==
    LET s1 == reg_dump_from(self, x, 0)
    IN  AdvancePc(IF s1.alive THEN [s1 EXCEPT !.i = (self.i + x + 1) % U16Mod] ELSE s1)

reg_dump(self, x) ==
    AdvancePc(reg_dump_from(self, x, 0))

\* lines 556-558, from register `reg` on
RECURSIVE reg_load_from(_, _, _)
reg_load_from(self, x, reg) ==
    IF reg > x \/ ~self.alive THEN self
    ELSE IF self.i + reg >= MemSize THEN Panic(self)
    ELSE reg_load_from([self EXCEPT !.v[reg] = self.memory[self.i + reg]],
                       x, reg + 1)

reg_load(self, x) ==
    AdvancePc(reg_load_from(self, x, 0))

(***************************************************************************)
(* execute_opcode: the two-level dispatch.  r is the random byte a         *)
(* rand-mask instruction would draw.                                       *)
(***************************************************************************)
execute_opcode(self, r) ==
    LET x == BitAnd(self.opcode, 3840) \div 256
        y == BitAnd(self.opcode, 240) \div 16
        n == BitAnd(self.opcode, 15)
        nn == BitAnd(self.opcode, 255)
        nnn == BitAnd(self.opcode, 4095)
        family == BitAnd(self.opcode, 61440) \div 4096
    IN  CASE family = 0 ->
                ( CASE nn = 224 ->
                          AdvancePc([self EXCEPT
                              !.gfx = [row \in 0..(GfxHeight - 1) |->
                                          [col \in 0..(GfxWidth - 1) |-> 0]],
                              !.screen_updated = TRUE])
                    [] nn = 238 -> return_subroutine(self)
                    [] OTHER -> Panic(self) )
          [] family = 1 -> [self EXCEPT !.pc = BitAnd(self.opcode, 4095)]
          [] family = 2 -> call_subroutine_at_nnn(self, nnn)
          [] family = 3 -> skip_if_vx_equals_nn(self, x, nn)
          [] family = 4 -> skip_if_vx_not_equal_nn(self, x, nn)
          [] family = 5 -> skip_if_vx_equals_vy(self, x, y)
          [] family = 6 -> vx_equals_nn(self, x, nn)
          [] family = 7 -> vx_plus_equals_nn(self, x, nn)
          [] family = 8 ->
                ( CASE n = 0 -> vx_assign_vy(self, x, y)
                    [] n = 1 -> vx_assign_or_vy(self, x, y)
                    [] n = 2 -> vx_assign_and_vy(self, x, y)
                    [] n = 3 -> vx_assign_xor_vy(self, x, y)
                    [] n = 4 -> vx_assign_plus_vy(self, x, y)
                    [] n = 5 -> vx_assign_minus_vy(self, x, y)
                    [] n = 6 -> vx_assign_rshift(self, x)
                    [] n = 7 -> vx_assign_vy_minus_vx(self, x, y)
                    [] n = 14 -> vx_assign_lshift(self, x)
                    [] OTHER -> Panic(self) )
          [] family = 9 -> skip_if_vx_not_equal_vy(self)
          [] family = 10 -> AdvancePc([self EXCEPT !.i = nnn])
          [] family = 11 -> [self EXCEPT !.pc = self.v[0] + nnn]
          [] family = 12 -> vx_equals_rand(self, x, nn, r)
          [] family = 13 -> draw(self, x, y, n)
          [] family = 14 ->
                ( CASE n = 14 -> skip_if_key_pressed(self, x)
                    [] n = 1 -> skip_if_key_not_pressed(self, x)
                    [] OTHER -> Panic(self) )
          [] family = 15 ->
                ( CASE nn = 7 -> vx_assign_delay(self, x)
                    [] nn = 10 -> vx_assign_key(self, x)
                    [] nn = 21 -> set_delay_timer(self, x)
                    [] nn = 24 -> set_sound_timer(self, x)
                    [] nn = 30 -> index_assign_plus_vx(self, x)
                    [] nn = 41 -> index_assign_sprite(self, x)
                    [] nn = 51 -> set_bcd(self, x)
                    [] nn = 85 -> reg_dump(self, x)
                    [] nn = 101 -> reg_load(self, x)
                    [] OTHER -> Panic(self) )
          [] OTHER -> Panic(self)

(***************************************************************************)
(* emulate_cycle: fetch, execute, then the timers.                         *)
(***************************************************************************)
\* A cycle that decrements the timers whatever they hold, in wrapping arithmetic.
emulate_cycle_timers_wrap(self, r) ==
    LET next == Arith(self, self.pc + 1, U16Mod)
    IN  IF self.pc >= MemSize THEN Panic(self)
        ELSE IF next.panics \/ next.val >= MemSize THEN Panic(self)
        ELSE
            LET s1 == [self EXCEPT !.opcode =
                          BitOr(self.memory[self.pc] * 256, self.memory[next.val])]
                s2 == execute_opcode(s1, r)
            IN  IF ~s2.alive THEN s2
                ELSE [s2 EXCEPT !.delay_timer = (@ - 1) % U8Mod,
                                !.sound_timer = (@ - 1) % U8Mod]

\* A cycle that leaves a timer alone in the step that sets it.
emulate_cycle_spares_set_timer(self, r) ==
    LET next == Arith(self, self.pc + 1, U16Mod)
    IN  IF self.pc >= MemSize THEN Panic(self)
        ELSE IF next.panics \/ next.val >= MemSize THEN Panic(self)
        ELSE
            LET s1 == [self EXCEPT !.opcode =
                          BitOr(self.memory[self.pc] * 256, self.memory[next.val])]
                s2 == execute_opcode(s1, r)
                setd == s1.opcode \div 4096 = 15 /\ s1.opcode % 256 = 21
                sets == s1.opcode \div 4096 = 15 /\ s1.opcode % 256 = 24
                s3 == IF s2.delay_timer > 0 /\ ~setd
                      THEN [s2 EXCEPT !.delay_timer = @ - 1] ELSE s2
                s4 == IF s3.sound_timer > 0 /\ ~sets
                      THEN [s3 EXCEPT !.sound_timer = @ - 1] ELSE s3
            IN  IF ~s2.alive THEN s2 ELSE s4

emulate_cycle(self, r) ==
    LET next == Arith(self, self.pc + 1, U16Mod)
    IN  IF self.pc >= MemSize THEN Panic(self)
        ELSE IF next.panics \/ next.val >= MemSize THEN Panic(self)
        ELSE
            LET s1 == [self EXCEPT !.opcode =
                          BitOr(self.memory[self.pc] * 256, self.memory[next.val])]
                s2 == execute_opcode(s1, r)
                s3 == IF s2.delay_timer > 0
                      THEN [s2 EXCEPT !.delay_timer = @ - 1] ELSE s2
                s4 == IF s3.sound_timer > 0
                      THEN [s3 EXCEPT !.sound_timer = @ - 1] ELSE s3
            IN  IF ~s2.alive THEN s2 ELSE s4

\* A read that returns the flag and leaves it as it is.
draw_flag_keeps(self) ==
    [m |-> self, result |-> self.screen_updated]

draw_flag(self) ==
    IF self.screen_updated
    THEN [m |-> [self EXCEPT !.screen_updated = FALSE], result |-> TRUE]
    ELSE [m |-> self, result |-> FALSE]

\* A set_keys that only adds the keys that went down to those already down.
set_keys_adds(self, ks) ==
    [self EXCEPT !.keys = [k \in 0..(NumKeys - 1) |->
                              IF ks[k] # 0 THEN ks[k] ELSE self.keys[k]]]

set_keys(self, ks) ==
    [self EXCEPT !.keys = ks]

(***************************************************************************)
(* The files a host may hand to load_game, and the key arrays it may hand  *)
(* to set_keys.                                                            *)
(***************************************************************************)
\* the two bytes of each instruction word, high byte first
RomBytes(words) ==
    [k \in 1..(2 * Len(words)) |->
        IF k % 2 = 1 THEN words[(k + 1) \div 2] \div 256
                     ELSE words[k \div 2] % 256]

RomFile(bytes) == [opens |-> TRUE, reads |-> TRUE, bytes |-> bytes]

\* a path File::open fails on
NoSuchFile == [opens |-> FALSE, reads |-> FALSE, bytes |-> <<>>]

\* a path File::open succeeds on and read fails on (a directory)
UnreadableFile == [opens |-> TRUE, reads |-> FALSE, bytes |-> <<>>]

\* instruction words
Ins(a, b, c, d) == a * 4096 + b * 256 + c * 16 + d
LdImm(x, nn) == Ins(6, x, 0, 0) + nn

NoKeys == [k \in 0..(NumKeys - 1) |-> 0]

\* main.rs writes 255 for every key that went down during the iteration
KeysDown(S) == [k \in 0..(NumKeys - 1) |-> IF k \in S THEN KeyDown ELSE 0]

(***************************************************************************)
(* The public methods as actions.                                          *)
(***************************************************************************)
Init ==
    /\ overflow_checks \in BOOLEAN
    /\ LET d == Default(overflow_checks)
       IN  /\ opcode = d.opcode
           /\ memory = d.memory
           /\ v = d.v
           /\ i = d.i
           /\ pc = d.pc
           /\ gfx = d.gfx
           /\ delay_timer = d.delay_timer
           /\ sound_timer = d.sound_timer
           /\ stack = d.stack
           /\ sp = d.sp
           /\ keys = d.keys
           /\ screen_updated = d.screen_updated
           /\ alive = d.alive
    /\ loads = 0
    /\ last = [call |-> "default", arg |-> <<>>, result |-> "Ok"]
    /\ trace = <<>>

LoadGame(file) ==
    /\ alive
    /\ LET r == load_game(Self, file)
       IN  /\ Becomes(r.m)
           /\ last' = [call |-> "load_game", arg |-> file, result |-> r.result]
    /\ loads' = loads + 1
    /\ UNCHANGED trace

\* the random bytes that make a difference to the instruction at pc
RandBytes ==
    IF pc + 1 < MemSize /\ memory[pc] \div 16 = 12 THEN 0..255 ELSE {0}

\* the last TraceLen machines of trace and m
Remember(m) ==
    LET t == Append(trace, m)
    IN  IF Len(t) > TraceLen THEN SubSeq(t, Len(t) - TraceLen + 1, Len(t)) ELSE t

EmulateCycle ==
    /\ alive
    /\ \E r \in RandBytes :
          /\ Becomes(emulate_cycle(Self, r))
          /\ last' = [call |-> "emulate_cycle", arg |-> r, result |-> "()"]
    /\ UNCHANGED loads

DrawFlag ==
    /\ alive
    /\ LET r == draw_flag(Self)
       IN  /\ Becomes(r.m)
           /\ last' = [call |-> "draw_flag", arg |-> <<>>,
                       result |-> IF r.result THEN "true" ELSE "false"]
    /\ UNCHANGED <<loads, trace>>

SetKeys(ks) ==
    /\ alive
    /\ Becomes(set_keys(Self, ks))
    /\ last' = [call |-> "set_keys", arg |-> ks, result |-> "()"]
    /\ UNCHANGED <<loads, trace>>

\* std::process::exit(1) after a failed load
Exit ==
    /\ alive
    /\ last.call = "load_game" /\ last.result = "Err"
    /\ last' = [call |-> "exit", arg |-> <<>>, result |-> "1"]
    /\ UNCHANGED <<opcode, memory, v, i, pc, gfx, delay_timer, sound_timer, stack,
                   sp, keys, screen_updated, alive, overflow_checks, loads, trace>>

(***************************************************************************)
(* application() of main.rs: construct, load the ROM, then for ever        *)
(* emulate_cycle, draw_flag, set_keys.  Files are the ROMs the user may    *)
(* name and Keys the key arrays an iteration may build.  The history       *)
(* variable trace remembers the machine before each of the last steps.     *)
(***************************************************************************)
application(Files, Keys) ==
    \/ /\ last.call = "default"
       /\ \E file \in Files : LoadGame(file)
    \/ Exit
    \/ /\ \/ last.call = "load_game" /\ last.result = "Ok"
          \/ last.call = "set_keys"
       /\ EmulateCycle
       /\ trace' = Remember(Self)
    \/ /\ last.call = "emulate_cycle"
       /\ DrawFlag
    \/ /\ last.call = "draw_flag"
       /\ \E ks \in Keys : SetKeys(ks)

(***************************************************************************)
(* ROMs that set two registers and then combine them.                      *)
(***************************************************************************)
ByteSamples == {0, 1, 3, 127, 128, 255}
DestRegs == {0, 7, 14}
SourceRegs == {0, 7, 14, 15}

ArithFiles ==
    { RomFile(RomBytes(<<LdImm(x, a), LdImm(y, b), Ins(8, x, y, op)>>)) :
        x \in DestRegs, y \in SourceRegs, a \in ByteSamples, b \in ByteSamples,
        op \in {4, 5} }
    \cup {NoSuchFile}

ArithNext == application(ArithFiles, {NoKeys})

ArithSpec == Init /\ [][ArithNext]_vars

(***************************************************************************)
(* What the claims speak about: the step just taken.                       *)
(***************************************************************************)
\* the last call of the host was a step of the machine
Stepped == last.call = "emulate_cycle" /\ trace # <<>>

\* the machine as it was before that step
Before == trace[Len(trace)]

\* the instruction word that step fetched
Word == Before.memory[Before.pc] * 256 + Before.memory[Before.pc + 1]

\* that step fetched an instruction word
Fetched == Stepped /\ Before.pc + 1 < MemSize

OpFamily == Word \div 4096
OpX == (Word \div 256) % 16
OpY == (Word \div 16) % 16
OpN == Word % 16
OpNN == Word % 256
OpNNN == Word % 4096

\* C1: after add reg-reg (8xy4) with x in 0x0..0xE, y in 0x0..0xF, a = V[x] and
\* b = V[y] before the step: V[x] = (a+b) mod 256, V[0xF] = 1 if a+b > 255
\* and 0 otherwise, and the step raised no fatal error.
C1_AddWithCarry ==
    (Fetched /\ OpFamily = 8 /\ OpN = 4 /\ OpX <= 14) =>
        LET a == Before.v[OpX]
            b == Before.v[OpY]
        IN  /\ alive
            /\ v[OpX] = (a + b) % 256
            /\ v[15] = IF a + b > 255 THEN 1 ELSE 0

\* C2: after sub reg-reg (8xy5) with x in 0x0..0xE, y in 0x0..0xF, a = V[x] and
\* b = V[y] before the step: V[x] = (a-b) mod 256, V[0xF] = 1 if a >= b and
\* 0 otherwise, and the step raised no fatal error.
C2_SubWithBorrow ==
    (Fetched /\ OpFamily = 8 /\ OpN = 5 /\ OpX <= 14) =>
        LET a == Before.v[OpX]
            b == Before.v[OpY]
        IN  /\ alive
            /\ v[OpX] = (a - b) % 256
            /\ v[15] = IF a >= b THEN 1 ELSE 0

(***************************************************************************)
(* ROMs that draw the glyph "0" in the top left corner and then draw one   *)
(* sprite twice in succession: A000 D125 Annn 6xkk 6ykk Dxyn Dxyn, and a   *)
(* sprite of 15 rows behind the program.                                   *)
(***************************************************************************)
SpriteData == <<255, 255, 170, 85, 129, 24, 255, 1, 128, 60, 195, 15, 240, 204, 51>>

\* the address the sprite data of a ROM of 7 instructions is loaded at
SpriteAddr == ProgStart + 14

DrawRegs == {<<0, 1>>, <<4, 4>>, <<14, 3>>, <<15, 1>>, <<1, 15>>}
DrawColumns == {0, 60, 255}
DrawLines == {0, 30, 255}
DrawRows == {0, 2, 15}

DrawRom(x, y, vx, vy, n, addr) ==
    RomFile(RomBytes(<<Ins(10, 0, 0, 0), Ins(13, 1, 2, 5), Ins(10, 0, 0, 0) + addr,
                       LdImm(x, vx), LdImm(y, vy),
                       Ins(13, x, y, n), Ins(13, x, y, n)>>)
            \o SpriteData)

DrawFiles ==
    { DrawRom(xy[1], xy[2], vx, vy, n, addr) :
        xy \in DrawRegs, vx \in DrawColumns, vy \in DrawLines, n \in DrawRows,
        addr \in {0, SpriteAddr} }
    \cup { DrawRom(xy[1], xy[2], 60, 30, n, MemSize - n) :
             xy \in DrawRegs, n \in DrawRows }
    \cup {NoSuchFile}

DrawNext == application(DrawFiles, {NoKeys})

DrawSpec == Init /\ [][DrawNext]_vars

\* the machine as it was before the step before the last one
Before2 == trace[Len(trace) - 1]

\* the last two steps both ran to their end and executed the same draw instruction
DrewTwice ==
    /\ Fetched /\ alive /\ OpFamily = 13
    /\ Len(trace) >= 2
    /\ Before2.pc + 1 < MemSize
    /\ Before2.memory[Before2.pc] * 256 + Before2.memory[Before2.pc + 1] = Word
    /\ Before.opcode = Word
    /\ Before2.i = Before.i
    /\ \A r \in 0..14 : Before2.v[r] = Before.v[r]
    /\ \A r \in 0..(OpN - 1) : Before2.memory[Before2.i + r] = Before.memory[Before.i + r]

\* C3 as stated: for every x and y in 0x0..0xF, after the same draw x y n has
\* been executed twice in succession every framebuffer pixel has the value
\* it had before the first of the two.
C3_DrawTwiceRestores_AnyRegister ==
    DrewTwice => gfx = Before2.gfx

\* C3 as amended: for every x and y in 0x0..0xE (neither operand is the flag
\* register, which draw itself resets and sets), after the same draw x y n
\* has been executed twice in succession every framebuffer pixel has the
\* value it had before the first of the two.
C3_DrawTwiceRestores ==
    (DrewTwice /\ OpX # 15 /\ OpY # 15) => gfx = Before2.gfx

\* two draws of a sprite with lit pixels onto a framebuffer with lit pixels
C3_Witness ==
    /\ DrewTwice /\ OpX # 15 /\ OpY # 15 /\ OpN = 15
    /\ Before.gfx # Before2.gfx
    /\ Before.v[15] = 1
    /\ gfx = Before2.gfx

\* bit p (0 = most significant) of row r of the sprite the last step drew
SpriteBit(r, p) == (Before.memory[Before.i + r] \div (2 ^ (7 - p))) % 2

\* C4: draw wraps instead of clipping.  For x, y other than 0xF, all V[x],
\* V[y], every n and I with I+n <= 4096, the step raises no fatal error (no
\* framebuffer index outside 64x32 is accessed), and the only pixels it may
\* change are those at column (V[x]+p) mod 64 and row (V[y]+r) mod 32 for
\* p in 0..7, r in 0..n-1; with V[x]=60, V[y]=30, n=2 these are columns
\* 60..63, 0..3 on rows 30 and 31, each flipped where the sprite bit is set.
C4_DrawWraps ==
    (Fetched /\ OpFamily = 13 /\ OpX # 15 /\ OpY # 15 /\ Before.i + OpN <= 4096) =>
        /\ alive
        /\ \A row \in 0..31 : \A col \in 0..63 :
              gfx[row][col] # Before.gfx[row][col] =>
                  \E p \in 0..7 : \E r \in 0..(OpN - 1) :
                      /\ col = (Before.v[OpX] + p) % 64
                      /\ row = (Before.v[OpY] + r) % 32
        /\ (Before.v[OpX] = 60 /\ Before.v[OpY] = 30 /\ OpN = 2) =>
              \A r \in 0..1 : \A p \in 0..7 :
                  LET col == IF p < 4 THEN 60 + p ELSE p - 4
                  IN  (gfx[30 + r][col] # Before.gfx[30 + r][col])
                          <=> (SpriteBit(r, p) = 1)

\* a draw at V[x]=60, V[y]=30 with n=2 has changed the pixel in column 3 of row 31
C4_Witness ==
    /\ Fetched /\ OpFamily = 13 /\ OpX # 15 /\ OpY # 15 /\ alive
    /\ Before.v[OpX] = 60 /\ Before.v[OpY] = 30 /\ OpN = 2
    /\ gfx[31][3] # Before.gfx[31][3]
    /\ gfx[30][60] # Before.gfx[30][60]

(***************************************************************************)
(* ROMs that nest `depth` calls, each to the next instruction, then call   *)
(* nnn, where a return sits.                                               *)
(***************************************************************************)
\* the deepest nesting the call ROMs try
MaxNest == 15

\* the address of the call under test in a ROM that nests `depth` calls first
CallAddr(depth) == ProgStart + 2 * depth

CallRom(depth, nnn) ==
    RomFile([k \in 1..(nnn + 2 - ProgStart) |->
                LET addr == ProgStart + k - 1
                    word == IF addr < CallAddr(depth) THEN Ins(2, 0, 0, 0) + (addr - (addr % 2)) + 2
                            ELSE IF addr < CallAddr(depth) + 2 THEN Ins(2, 0, 0, 0) + nnn
                            ELSE IF addr >= nnn THEN Ins(0, 0, 14, 14)
                            ELSE 0
                IN  IF addr % 2 = 0 THEN word \div 256 ELSE word % 256])

CallFiles ==
    { CallRom(depth, nnn) :
        depth \in 0..MaxNest,
        nnn \in {ProgStart + 2 * MaxNest + 4, ProgStart + 2 * MaxNest + 10, MemSize - 2} }
    \cup {NoSuchFile}

CallNext == application(CallFiles, {NoKeys})

CallSpec == Init /\ [][CallNext]_vars

\* the last two steps ran to their end: a call nnn, then the return found at nnn
CalledAndReturned ==
    /\ Fetched /\ alive /\ Word = 238
    /\ Len(trace) >= 2
    /\ Before2.pc + 1 < MemSize
    /\ Before2.memory[Before2.pc] \div 16 = 2
    /\ Before.opcode = Before2.memory[Before2.pc] * 256 + Before2.memory[Before2.pc + 1]
    /\ Before.pc = Before.opcode % 4096

\* C5: a call at address A made with stack pointer sp0, followed at once by
\* the return at its target, leaves pc = A + 2 and sp = sp0.
C5_CallThenReturn ==
    CalledAndReturned => (pc = Before2.pc + 2 /\ sp = Before2.sp)

\* a call made fourteen calls deep, to the last word of memory, has returned
C5_Witness ==
    /\ CalledAndReturned
    /\ Before2.sp = 14 /\ Before.sp = 15 /\ sp = 14
    /\ Before.pc = MemSize - 2
    /\ pc = Before2.pc + 2

(***************************************************************************)
(* Any host: the four public methods called in any order, load_game at     *)
(* most MaxLoads times.  This specification keeps no history (trace stays  *)
(* empty): its claims are stated over the last call or over one step.      *)
(***************************************************************************)
\* how many times the host calls load_game
MaxLoads == 2

\* A ROM whose run leaves no field of the machine as construction left it:
\* 6A7B VA=123, A010 I=0x010, FA33 digits of VA to 0x010..0x012, FA15 delay=123,
\* FA18 sound=123, D005 draw, 2210 call 0x210.
StateRom ==
    RomFile(RomBytes(<<LdImm(10, 123), Ins(10, 0, 1, 0), Ins(15, 10, 3, 3),
                       Ins(15, 10, 1, 5), Ins(15, 10, 1, 8), Ins(13, 0, 0, 5),
                       Ins(2, 2, 1, 0)>>))

\* an image of `len` bytes, none of them zero
Image(len) == RomFile([k \in 1..len |-> 1 + (k % 255)])

Files ==
    {StateRom, Image(BufferLen), Image(BufferLen + 1), NoSuchFile, UnreadableFile}

KeyArrays == {KeysDown({5})}

Next ==
    \/ \E file \in Files : loads < MaxLoads /\ LoadGame(file)
    \/ EmulateCycle /\ UNCHANGED trace
    \/ DrawFlag
    \/ \E ks \in KeyArrays : SetKeys(ks)

Spec == Init /\ [][Next]_vars

\* the last call of the host was load_game
Loaded == last.call = "load_game"

\* C6: load_game rejects an image longer than 3584 bytes: given a readable
\* file of 3585 or more bytes it returns an error (and so copies no
\* truncated prefix of it into memory).
C6_LoadRejectsLongImage ==
    (Loaded /\ last.arg.opens /\ last.arg.reads /\ Len(last.arg.bytes) > BufferLen) =>
        last.result = "Err"

\* C7: load copies verbatim.  After a successful load of an image of
\* L <= 3584 bytes, memory[0x200 + k] is byte k of the image for every k in
\* 0..L-1; an image of 3584 bytes fills 0x200..0xFFF exactly.
C7_LoadCopiesVerbatim ==
    (Loaded /\ last.result = "Ok" /\ Len(last.arg.bytes) <= BufferLen) =>
        /\ \A k \in 0..(Len(last.arg.bytes) - 1) :
              memory[ProgStart + k] = last.arg.bytes[k + 1]
        /\ ProgStart + BufferLen = MemSize

\* an image of 3584 bytes has been loaded over a machine that had run
C7_Witness ==
    /\ Loaded /\ last.result = "Ok" /\ Len(last.arg.bytes) = BufferLen
    /\ memory[ProgStart] = last.arg.bytes[1]
    /\ memory[MemSize - 1] = last.arg.bytes[BufferLen]
    /\ memory[MemSize - 1] # 0
    /\ loads = 2 /\ v[10] = 123

\* the fields of the machine other than memory
Registers ==
    <<opcode, v, i, pc, gfx, delay_timer, sound_timer, stack, sp, keys,
      screen_updated, alive>>

\* C8: a load at any point changes only memory cells 0x200..0xFFF: memory
\* 0x000..0x1FF, the registers, I, pc, the stack, sp, both timers, the key
\* state, the framebuffer and the display-changed flag are as before.
C8_LoadResetsNothingElse ==
    [][ loads' = loads + 1 =>
          /\ \A a \in 0..(ProgStart - 1) : memory'[a] = memory[a]
          /\ Registers' = Registers ]_vars

\* a load has been made over a machine none of whose fields was as
\* construction left it, memory below 0x200 included
C8_Witness ==
    /\ Loaded /\ last.result = "Ok" /\ loads = 2
    /\ memory[ProgStart] # 106
    /\ memory[16] = 1 /\ memory[17] = 2 /\ memory[18] = 3
    /\ v[10] = 123 /\ i = 16 /\ pc = 528 /\ sp = 1 /\ stack[1] = 526
    /\ delay_timer > 0 /\ sound_timer > 0
    /\ keys[5] = KeyDown
    /\ gfx[0][7] = 1 /\ screen_updated
    /\ opcode = 8720

\* C9: a failed load is not partial: when load_game returns an error, every
\* memory cell and every other field of the machine is as before the call.
C9_FailedLoadChangesNothing ==
    [][ (loads' = loads + 1 /\ last'.result = "Err") =>
          (memory' = memory /\ Registers' = Registers) ]_vars

\* a load has failed on a machine that had loaded and run a ROM
C9_Witness ==
    /\ Loaded /\ last.result = "Err" /\ loads = 2
    /\ last.arg.opens /\ ~last.arg.reads
    /\ memory[ProgStart] = 106
    /\ v[10] = 123 /\ sp = 1 /\ gfx[0][7] = 1

(***************************************************************************)
(* ROMs that point I somewhere, set a register and store its decimal       *)
(* digits: Annn 6xkk Fx33.                                                 *)
(***************************************************************************)
BcdValues == {0, 7, 9, 10, 23, 99, 100, 109, 123, 199, 200, 255}
BcdRegs == {0, 4, 15}
BcdAddrs == {0, 48, ProgStart + 3, 768, MemSize - 3, MemSize - 2, MemSize - 1}

BcdFiles ==
    { RomFile(RomBytes(<<Ins(10, 0, 0, 0) + addr, LdImm(x, val), Ins(15, x, 3, 3)>>)) :
        addr \in BcdAddrs, x \in BcdRegs, val \in BcdValues }
    \cup {NoSuchFile}

BcdNext == application(BcdFiles, {NoKeys})

BcdSpec == Init /\ [][BcdNext]_vars

\* C10: store-bcd (Fx33).  For every v = V[x] and every I with I+2 < 4096,
\* after the step memory[I], memory[I+1], memory[I+2] are the hundreds, tens
\* and ones digits of v (each in 0..9, 100*memory[I] + 10*memory[I+1] +
\* memory[I+2] = v), and no other memory cell, no register and not I has
\* changed.
C10_StoreBcd ==
    (Fetched /\ OpFamily = 15 /\ OpNN = 51 /\ Before.i + 2 < MemSize) =>
        /\ alive
        /\ memory[Before.i] \in 0..9
        /\ memory[Before.i + 1] \in 0..9
        /\ memory[Before.i + 2] \in 0..9
        /\ 100 * memory[Before.i] + 10 * memory[Before.i + 1] + memory[Before.i + 2]
              = Before.v[OpX]
        /\ \A a \in 0..(MemSize - 1) :
              a \notin Before.i..(Before.i + 2) => memory[a] = Before.memory[a]
        /\ v = Before.v
        /\ i = Before.i

\* the digits 1, 2, 3 of V[x] = 123 have been stored in the last three cells of memory
C10_Witness ==
    /\ Fetched /\ OpFamily = 15 /\ OpNN = 51 /\ alive
    /\ Before.v[OpX] = 123 /\ Before.i = MemSize - 3
    /\ memory[MemSize - 3] = 1 /\ memory[MemSize - 2] = 2 /\ memory[MemSize - 1] = 3

(***************************************************************************)
(* ROMs that fill all sixteen registers from their own data, point I       *)
(* somewhere, dump V0..Vx, overwrite a register and load V0..Vx back:      *)
(* A20C FF65 Annn Fx55 6rkk Fx65, and sixteen bytes of data.               *)
(***************************************************************************)
RegData == <<17, 34, 51, 68, 85, 102, 119, 136, 153, 170, 187, 204, 221, 238, 255, 16>>

RegCounts == {0, 3, 14, 15}
RegAddrs(x) == {0, 768, MemSize - 1 - x, MemSize - x}

RegRom(x, addr, r) ==
    RomFile(RomBytes(<<Ins(10, 0, 0, 0) + ProgStart + 12, Ins(15, 15, 6, 5),
                       Ins(10, 0, 0, 0) + addr, Ins(15, x, 5, 5),
                       LdImm(r, 90), Ins(15, x, 6, 5)>>)
            \o RegData)

RegFiles ==
    { RegRom(x[1], addr, x[2]) :
        x \in {<<c, r>> : c \in RegCounts, r \in {0, 2, 15}}, addr \in {0, 768} }
    \cup { RegRom(x, MemSize - 1 - x, 0) : x \in RegCounts }
    \cup { RegRom(x, MemSize - x, 0) : x \in RegCounts }
    \cup {NoSuchFile}

RegNext == application(RegFiles, {NoKeys})

RegSpec == Init /\ [][RegNext]_vars

\* the last step ran reg-load x to its end, two steps after a reg-dump x, and
\* the step in between changed neither I nor a dumped cell
DumpedAndLoaded ==
    /\ Fetched /\ alive /\ OpFamily = 15 /\ OpNN = 101
    /\ Len(trace) >= 2
    /\ Before2.opcode = Ins(15, OpX, 5, 5)
    /\ Before.i = Before2.i
    /\ \A r \in 0..OpX : Before.memory[Before.i + r] = Before2.memory[Before2.i + r]

\* C11: reg-dump x (Fx55) with I+x < 4096 writes V[r] to memory[I+r] for r in
\* 0..x and changes no register and not I; reg-load x (Fx65) with I+x < 4096
\* assigns V[r] = memory[I+r] for exactly r in 0..x and changes no register
\* above x and not I; and after reg-dump x, one instruction that changes
\* registers but neither I nor memory[I..I+x], and reg-load x, V[0..x] are
\* what they were at the dump.
C11_RegDumpLoadRoundTrip ==
    /\ (Fetched /\ OpFamily = 15 /\ OpNN = 85 /\ Before.i + OpX < MemSize) =>
          /\ alive
          /\ \A r \in 0..OpX : memory[Before.i + r] = Before.v[r]
          /\ v = Before.v
          /\ i = Before.i
    /\ (Fetched /\ OpFamily = 15 /\ OpNN = 101 /\ Before.i + OpX < MemSize) =>
          /\ alive
          /\ \A r \in 0..15 :
                v[r] = IF r <= OpX THEN Before.memory[Before.i + r] ELSE Before.v[r]
          /\ i = Before.i
          /\ memory = Before.memory
    /\ DumpedAndLoaded => \A r \in 0..OpX : v[r] = Before2.v[r]

\* V0..V14 have been dumped to the end of memory, V0 overwritten, and loaded back
C11_Witness ==
    /\ DumpedAndLoaded /\ OpX = 14
    /\ Before.i = MemSize - 15
    /\ Before2.v[0] = 17 /\ Before.v[0] = 90 /\ v[0] = 17
    /\ v[14] = 255 /\ memory[MemSize - 1] = 255
    /\ v[15] = 16

(***************************************************************************)
(* ROMs that set two registers and then skip on them: 6xaa 6ybb and one    *)
(* of 3xnn, 4xnn, 5xy0, 9xy0.                                              *)
(***************************************************************************)
SkipRegs == {0, 7, 15}
SkipValues == {0, 5, 6, 255}

\* the skips tried on registers x and y
SkipWords(x, y) ==
    << Ins(3, x, 0, 5), Ins(3, x, 0, 6), Ins(4, x, 0, 5), Ins(4, x, 0, 6),
       Ins(5, x, y, 0), Ins(9, x, y, 0) >>

SkipFiles ==
    { RomFile(RomBytes(<<LdImm(x, a), LdImm(y, b), SkipWords(x, y)[w]>>)) :
        x \in SkipRegs, y \in SkipRegs, a \in SkipValues, b \in SkipValues,
        w \in 1..6 }
    \cup {NoSuchFile}

SkipNext == application(SkipFiles, {NoKeys})

SkipSpec == Init /\ [][SkipNext]_vars

\* the last step fetched one of the four conditional skips on registers
IsSkip == Fetched /\ (OpFamily \in {3, 4} \/ (OpFamily \in {5, 9} /\ OpN = 0))

\* the condition of that skip, on the registers as they were before the step
SkipCondition ==
    CASE OpFamily = 3 -> Before.v[OpX] = OpNN
      [] OpFamily = 4 -> Before.v[OpX] # OpNN
      [] OpFamily = 5 -> Before.v[OpX] = Before.v[OpY]
      [] OpFamily = 9 -> Before.v[OpX] # Before.v[OpY]

TimerValues == {0, 1, 4, 255}

TimerFiles ==
    { RomFile(RomBytes(<<LdImm(10, t), Ins(15, 10, 1, 5), LdImm(10, s), Ins(15, 10, 1, 8),
                         Ins(0, 0, 14, 0), Ins(15, 10, 0, 7), tail>>)) :
        t \in TimerValues, s \in TimerValues,
        tail \in {Ins(1, 0, 0, 0) + ProgStart + 12, Ins(15, 10, 0, 10)} }
    \cup {NoSuchFile}

TimerNext == application(TimerFiles, {NoKeys})

TimerSpec == Init /\ [][TimerNext]_vars

\* t less one, but not less than zero
CountDown(t) == IF t > 0 THEN t - 1 ELSE 0

\* the instruction words set-delay and set-sound of register x
SetDelayWords == {Ins(15, x, 1, 5) : x \in 0..15}
SetSoundWords == {Ins(15, x, 1, 8) : x \in 0..15}

\* the last two steps both ran to their end
SteppedTwice == Fetched /\ alive /\ Len(trace) >= 2

\* C13: after a successful step that executes no set instruction for a
\* timer, the timer is max(0, t-1) where t was its value before the step,
\* and after two such steps in a row it is max(0, t-2): a timer at 1 becomes
\* 0, a timer at 0 stays 0, and no timer wraps to 255.
C13_TimersCountDown ==
    /\ (Fetched /\ alive /\ Word \notin SetDelayWords) =>
          delay_timer = CountDown(Before.delay_timer)
    /\ (Fetched /\ alive /\ Word \notin SetSoundWords) =>
          sound_timer = CountDown(Before.sound_timer)
    /\ (SteppedTwice /\ Word \notin SetDelayWords /\ Before.opcode \notin SetDelayWords) =>
          delay_timer = CountDown(CountDown(Before2.delay_timer))
    /\ (SteppedTwice /\ Word \notin SetSoundWords /\ Before.opcode \notin SetSoundWords) =>
          sound_timer = CountDown(CountDown(Before2.sound_timer))

\* a step that sets no timer has taken the delay timer from 1 to 0 and left
\* the sound timer at 0
C13_Witness ==
    /\ Fetched /\ alive /\ Word \notin (SetDelayWords \cup SetSoundWords)
    /\ Before.delay_timer = 1 /\ delay_timer = 0
    /\ Before.sound_timer = 0 /\ sound_timer = 0

(***************************************************************************)
(* ROMs of one instruction word, catalogued or not.                        *)
(***************************************************************************)
\* 0000 00E1 00EF 01E0 0AEE 0123 5001 512F 8008 8129 812F 9001 9AB5 E000 E00E
\* E011 E19F E1A0 E0FE F000 F008 F1FF, and of the catalogue 00E0 00EE 5120
\* 9120 8126 812E E09E E0A1 F007 F10A
DecodeWords ==
    { 0, 225, 239, 480, 2798, 291, 20481, 20783, 32776, 33065, 33071, 36865,
      39605, 57344, 57358, 57361, 57759, 57760, 57598, 61440, 61448, 61951,
      224, 238, 20768, 37152, 33062, 33070, 57502, 57505, 61447, 61706 }

DecodeFiles == { RomFile(RomBytes(<<w>>)) : w \in DecodeWords } \cup {NoSuchFile}

DecodeNext == application(DecodeFiles, {NoKeys, KeysDown({0})})

DecodeSpec == Init /\ [][DecodeNext]_vars

\* w is one of the catalogued patterns: 00E0, 00EE, 1nnn, 2nnn, 3xnn, 4xnn,
\* 5xy0, 6xnn, 7xnn, 8xy0..8xy7, 8xyE, 9xy0, Annn, Bnnn, Cxnn, Dxyn, Ex9E,
\* ExA1, Fx07, Fx0A, Fx15, Fx18, Fx1E, Fx29, Fx33, Fx55, Fx65
Catalogued(w) ==
    LET family == w \div 4096
        n == w % 16
        nn == w % 256
    IN  \/ w \in {224, 238}
        \/ family \in {1, 2, 3, 4, 6, 7, 10, 11, 12, 13}
        \/ family \in {5, 9} /\ n = 0
        \/ family = 8 /\ n \in (0..7) \cup {14}
        \/ family = 14 /\ nn \in {158, 161}
        \/ family = 15 /\ nn \in {7, 10, 21, 24, 30, 41, 51, 85, 101}

\* C14: a step that fetches an instruction word that is not one of the
\* catalogued patterns stops execution with a fatal error.
C14_FatalDecode ==
    (Fetched /\ ~Catalogued(Word)) => ~alive

(***************************************************************************)
(* A host that loads a ROM and then calls set_keys and emulate_cycle in    *)
(* any order, with key arrays whose entries are any bytes.  The ROM waits  *)
(* for a key again and again: 6xC8 Fx0A 1200.                              *)
(***************************************************************************)
KeyFiles ==
    { RomFile(RomBytes(<<LdImm(x, 200), Ins(15, x, 0, 10), Ins(1, 2, 0, 0)>>)) :
        x \in {0, 6, 15} }

\* key 7 held as 1; key 2 held as 1 and key 9 as 255
KeyBytes ==
    { NoKeys, KeysDown({3}), KeysDown({3, 9}),
      [k \in 0..(NumKeys - 1) |-> IF k = 7 THEN 1 ELSE 0],
      [k \in 0..(NumKeys - 1) |-> IF k = 2 THEN 1 ELSE IF k = 9 THEN KeyDown ELSE 0] }

KeyNext ==
    \/ /\ last.call = "default"
       /\ \E file \in KeyFiles : LoadGame(file)
    \/ /\ last.call # "default"
       /\ EmulateCycle
       /\ trace' = Remember(Self)
    \/ /\ last.call # "default"
       /\ \E ks \in KeyBytes : SetKeys(ks)

KeySpec == Init /\ [][KeyNext]_vars

\* C15: a step that executes read-key (Fx0A) leaves pc and every register
\* unchanged if all 16 entries of the key state are zero, and if at least
\* one entry is nonzero sets V[x] to the index of a nonzero entry, leaves the
\* other registers unchanged and advances pc by 2.
C15_ReadKey ==
    (Fetched /\ OpFamily = 15 /\ OpNN = 10) =>
        /\ alive
        /\ IF \A k \in 0..(NumKeys - 1) : Before.keys[k] = 0
           THEN pc = Before.pc /\ v = Before.v
           ELSE /\ pc = Before.pc + 2
                /\ v[OpX] \in 0..(NumKeys - 1)
                /\ Before.keys[v[OpX]] # 0
                /\ \A r \in 0..15 : r # OpX => v[r] = Before.v[r]

(***************************************************************************)
(* A host that loads a ROM and then calls emulate_cycle whenever it likes  *)
(* and draw_flag whenever it likes, also before the load.  The ROMs: one   *)
(* that clears and draws in a loop (00E0 6005 D005 6A01 1200), one that    *)
(* changes registers and clears in a loop (6A01 7A01 00E0 1202), and one   *)
(* whose second draw reads past the end of memory (D001 AFFF D012).        *)
(***************************************************************************)
FlagFiles ==
    { RomFile(RomBytes(<<Ins(0, 0, 14, 0), LdImm(0, 5), Ins(13, 0, 0, 5), LdImm(10, 1),
                         Ins(1, 2, 0, 0)>>)),
      RomFile(RomBytes(<<LdImm(10, 1), Ins(7, 10, 0, 1), Ins(0, 0, 14, 0),
                         Ins(1, 2, 0, 2)>>)),
      RomFile(RomBytes(<<Ins(13, 0, 0, 1), Ins(10, 15, 15, 15), Ins(13, 0, 1, 2)>>)) }

FlagNext ==
    \/ /\ last.call = "default"
       /\ \E file \in FlagFiles : LoadGame(file)
    \/ /\ loads > 0
       /\ EmulateCycle
       /\ UNCHANGED trace
    \/ DrawFlag

FlagSpec == Init /\ [][FlagNext]_vars

\* the instruction word at pc is a clear or a draw
AtClearOrDraw ==
    /\ pc + 1 < MemSize
    /\ \/ memory[pc] * 256 + memory[pc + 1] = 224
       \/ memory[pc] \div 16 = 13

ReturnRom(depth) ==
    RomFile(RomBytes([k \in 1..(2 * depth + 1) |->
                IF k % 2 = 1 /\ k < 2 * depth
                THEN Ins(2, 0, 0, 0) + ProgStart + 2 * (k + 1)
                ELSE Ins(0, 0, 14, 14)]))

ReturnFiles == { ReturnRom(depth) : depth \in 0..(MaxNest + 1) } \cup {NoSuchFile}

ReturnNext == application(ReturnFiles, {NoKeys})

ReturnSpec == Init /\ [][ReturnNext]_vars

\* C17: a step that executes return (00EE) with sp in 0..15 raises no fatal
\* error, sets pc to stack[sp] and then sp to sp-1 when sp > 0 and leaves
\* sp at 0 when sp = 0; on a machine whose stack is as construction left it
\* it sets pc to 0.
C17_ReturnClamps ==
    (Fetched /\ Word = 238 /\ Before.sp \in 0..(StackSize - 1)) =>
        /\ alive
        /\ pc = Before.stack[Before.sp]
        /\ sp = (IF Before.sp > 0 THEN Before.sp - 1 ELSE 0)
        /\ sp >= 0
        /\ stack = Before.stack
        /\ (Before.sp = 0 /\ Before.stack = Default(overflow_checks).stack) => pc = 0

\* two returns in a row, the second with the stack empty, after fifteen calls
C17_Witness ==
    /\ Fetched /\ Word = 238 /\ alive /\ Len(trace) >= 2
    /\ Before.opcode = 238
    /\ Before2.sp = 1 /\ Before.sp = 0 /\ sp = 0
    /\ pc = 0
    /\ stack[15] = ProgStart + 58

\* C18: the call stack holds 16 return addresses: starting from sp = 0, each
\* of 16 nested calls (a call made while fewer than 16 return addresses are
\* held) completes without a fatal error, leaves its return address in the
\* slot the next return reads, and sp counts the addresses held.
C18_SixteenNestedCalls ==
    (Fetched /\ OpFamily = 2 /\ Before.sp < StackSize) =>
        /\ alive
        /\ sp = Before.sp + 1
        /\ stack[sp] = Before.pc + 2

(***************************************************************************)
(* ROMs that set two registers and shift the first: 6xvv 6yww 8xy6 or      *)
(* 8xyE.                                                                   *)
(***************************************************************************)
ShiftValues == {0, 1, 2, 85, 127, 128, 170, 255}

ShiftFiles ==
    { RomFile(RomBytes(<<LdImm(x, a), LdImm(y, b), Ins(8, x, y, op)>>)) :
        x \in {0, 7, 14}, y \in {0, 3, 15}, a \in ShiftValues, b \in {0, 255},
        op \in {6, 14} }
    \cup {NoSuchFile}

ShiftNext == application(ShiftFiles, {NoKeys})

ShiftSpec == Init /\ [][ShiftNext]_vars

\* C19: a step that executes shift-left (8xyE) with x in 0x0..0xE and
\* v = V[x] sets V[0xF] to bit 7 of v and V[x] to (2*v) mod 256; one that
\* executes shift-right (8xy6) sets V[0xF] to bit 0 of v and V[x] to v div 2;
\* whatever V[y] holds, and no other register changes.
C19_ShiftsSetFlag ==
    (Fetched /\ OpFamily = 8 /\ OpN \in {6, 14} /\ OpX <= 14) =>
        LET val == Before.v[OpX]
        IN  /\ alive
            /\ v[15] = (IF OpN = 14 THEN val \div 128 ELSE val % 2)
            /\ v[OpX] = (IF OpN = 14 THEN (2 * val) % 256 ELSE val \div 2)
            /\ \A r \in 0..14 : r # OpX => v[r] = Before.v[r]

\* shift-left of 10101010 has left 01010100 and the flag 1, with V[y] = 255
C19_Witness ==
    /\ Fetched /\ OpFamily = 8 /\ OpN = 14 /\ OpX <= 14 /\ OpY # OpX
    /\ Before.v[OpX] = 170 /\ Before.v[OpY] = 255
    /\ v[OpX] = 84 /\ v[15] = 1

\* the draw of the last step XORed a set sprite bit onto a pixel that was lit
Collided ==
    \E r \in 0..(OpN - 1) : \E p \in 0..7 :
        /\ SpriteBit(r, p) = 1
        /\ Before.gfx[(Before.v[OpY] + r) % 32][(Before.v[OpX] + p) % 64] = 1

AddValues == {0, 1, 127, 128, 200, 255}

AddFiles ==
    { RomFile(RomBytes(<<LdImm(15, f), LdImm(x, a), Ins(7, x, 0, 0) + nn>>)) :
        f \in {0, 1, 7}, x \in {0, 7, 14}, a \in AddValues, nn \in AddValues }
    \cup {NoSuchFile}

AddNext == application(AddFiles, {NoKeys})

AddSpec == Init /\ [][AddNext]_vars

\* C21: a step that executes add-imm (7xnn) with x in 0x0..0xE and v = V[x]
\* raises no fatal error and leaves V[x] = (v + nn) mod 256 and every other
\* register, V[0xF] included, unchanged, also when v + nn > 255.
C21_AddImmWraps ==
    (Fetched /\ OpFamily = 7 /\ OpX <= 14) =>
        /\ alive
        /\ v[OpX] = (Before.v[OpX] + OpNN) % 256
        /\ \A r \in 0..15 : r # OpX => v[r] = Before.v[r]

\* 200 + 128 has wrapped to 72 and the flag register still holds 7
C21_Witness ==
    /\ Fetched /\ OpFamily = 7 /\ OpX <= 14 /\ alive
    /\ Before.v[OpX] = 200 /\ OpNN = 128 /\ v[OpX] = 72
    /\ Before.v[15] = 7 /\ v[15] = 7

(***************************************************************************)
(* ROMs that move pc by jump, jump-offset, call and return, to even and to *)
(* odd addresses.                                                          *)
(***************************************************************************)
\* 0x200 600k, 0x202 Bnnn with k + nnn = 0x208, 0x208 220E, 0x20A 1202,
\* 0x20E 00EE: a loop through an index-jump, a call, a return and a jump
JumpLoopRom(k) ==
    RomFile(RomBytes(<<LdImm(0, k), Ins(11, 0, 0, 0) + (ProgStart + 8 - k), 0, 0,
                       Ins(2, 2, 0, 14), Ins(1, 2, 0, 2), 0, Ins(0, 0, 14, 14)>>))

\* a control transfer `word` to an odd address, where 6005 sits
OddTargetRom(k, word) ==
    RomFile(RomBytes(<<LdImm(0, k), word>>) \o <<0, 96, 5, 96, 5>>)

JumpFiles ==
    { JumpLoopRom(k) : k \in {0, 1, 3, 5, 7} }
    \cup { OddTargetRom(0, Ins(1, 2, 0, 5)), OddTargetRom(0, Ins(2, 2, 0, 5)),
           OddTargetRom(1, Ins(11, 2, 0, 4)), OddTargetRom(0, Ins(0, 0, 14, 14)) }
    \cup {NoSuchFile}

JumpNext == application(JumpFiles, {NoKeys})

JumpSpec == Init /\ [][JumpNext]_vars

\* C22 as stated: in every reachable state in which the steps so far were
\* successful, pc mod 2 = 0.
C22_PcAlwaysEven ==
    alive => pc % 2 = 0

\* pc and every return address on the stack are even
EvenAligned ==
    /\ pc % 2 = 0
    /\ \A s \in 0..(StackSize - 1) : stack[s] % 2 = 0

\* the instruction word at pc is a jump or call to an odd nnn, or a
\* jump-offset whose target V[0] + nnn is odd
AtOddTransfer ==
    /\ pc + 1 < MemSize
    /\ LET word == memory[pc] * 256 + memory[pc + 1]
       IN  \/ word \div 4096 \in {1, 2} /\ word % 2 = 1
           \/ word \div 4096 = 11 /\ (v[0] + word) % 2 = 1

\* C22 as amended: pc is even as long as the program transfers control to
\* even addresses only.  pc and the stack are even after construction, and
\* every load, every other call of the host and every successful step that
\* is not a jump or call to an odd nnn or a jump-offset to an odd V[0] + nnn
\* keeps pc and the return addresses on the stack even.
C22_PcStaysEven ==
    /\ EvenAligned
    /\ [][ (EvenAligned /\ alive' /\ ~(last'.call = "emulate_cycle" /\ AtOddTransfer))
              => EvenAligned' ]_vars

\* a jump-offset with V[0] = 7 and nnn = 0x201 has reached the even 0x208,
\* after a return and a jump back
C22_Witness ==
    /\ Fetched /\ alive /\ OpFamily = 11
    /\ Before.v[0] = 7 /\ OpNNN % 2 = 1
    /\ pc = ProgStart + 8
    /\ stack[1] = ProgStart + 10
    /\ EvenAligned

\* C23: the glyph set is preserved: in every reachable state memory cells
\* 0x000..0x04F hold the 80 bytes of the built-in glyph set.
C23_GlyphSetPreserved ==
    \A a \in 0..(FontLen - 1) : memory[a] = CHIP8_FONTSET[a + 1]

(***************************************************************************)
(* A ROM that runs one instruction of every kind in a loop, with a key     *)
(* that may or may not be down in each iteration of the host:              *)
(*   6A05 6B03 7A01 8AB0 8AB1 8AB2 8AB3 8AB4 8AB5 8AB6 8AB7 8ABE A300 CA01 *)
(*   DAB3 FA07 FA15 FA18 FA1E FA29 A300 FA33 FA55 FA65 00E0 2238 B236 123A *)
(*   00EE FA0A 1200                                                        *)
(***************************************************************************)
TourRom ==
    RomFile(RomBytes(<<
        LdImm(10, 5), LdImm(11, 3), Ins(7, 10, 0, 1),
        Ins(8, 10, 11, 0), Ins(8, 10, 11, 1), Ins(8, 10, 11, 2), Ins(8, 10, 11, 3),
        Ins(8, 10, 11, 4), Ins(8, 10, 11, 5), Ins(8, 10, 11, 6), Ins(8, 10, 11, 7),
        Ins(8, 10, 11, 14), Ins(10, 3, 0, 0), Ins(12, 10, 0, 1),
        Ins(13, 10, 11, 3), Ins(15, 10, 0, 7), Ins(15, 10, 1, 5), Ins(15, 10, 1, 8),
        Ins(15, 10, 1, 14), Ins(15, 10, 2, 9), Ins(10, 3, 0, 0), Ins(15, 10, 3, 3),
        Ins(15, 10, 5, 5), Ins(15, 10, 6, 5), Ins(0, 0, 14, 0),
        Ins(2, 2, 3, 8), Ins(11, 2, 3, 6), Ins(1, 2, 3, 10),
        Ins(0, 0, 14, 14), Ins(15, 10, 0, 10), Ins(1, 2, 0, 0) >>))

TourFiles == {TourRom, NoSuchFile}

TourNext == application(TourFiles, {NoKeys, KeysDown({5})})

TourSpec == Init /\ [][TourNext]_vars

\* C24: in every successful step, jump and call set pc = nnn, jump-offset
\* sets pc = V[0] + nnn, return sets pc to the popped address, a read-key
\* leaves pc unchanged when it stalls (no key is down) and advances it by 2
\* otherwise, and every other instruction that is not a conditional skip
\* sets pc to exactly pc + 2.
C24_PcDiscipline ==
    (Fetched /\ alive) =>
        CASE OpFamily \in {1, 2} -> pc = OpNNN
          [] OpFamily = 11 -> pc = Before.v[0] + OpNNN
          [] Word = 238 -> pc = Before.stack[Before.sp]
          [] OpFamily = 15 /\ OpNN = 10 ->
                pc = (IF \E k \in 0..(NumKeys - 1) : Before.keys[k] = KeyDown
                      THEN Before.pc + 2 ELSE Before.pc)
          [] OpFamily \in {3, 4, 5, 9, 14} -> pc \in {Before.pc + 2, Before.pc + 4}
          [] OTHER -> pc = Before.pc + 2

\* a rand-mask has drawn an odd byte and advanced pc by 2
C24_Witness ==
    /\ Fetched /\ alive /\ OpFamily = 12
    /\ v[OpX] = 1
    /\ pc = Before.pc + 2

(***************************************************************************)
(* A ROM that starts both timers and then waits for a key again and again: *)
(* 6A09 FA15 FA18 6B07 FB0A 1208.                                          *)
(***************************************************************************)
WaitRom ==
    RomFile(RomBytes(<<LdImm(10, 9), Ins(15, 10, 1, 5), Ins(15, 10, 1, 8),
                       LdImm(11, 7), Ins(15, 11, 0, 10), Ins(1, 2, 0, 8)>>))

WaitFiles == {WaitRom, NoSuchFile}

WaitNext == application(WaitFiles, {NoKeys, KeysDown({5}), KeysDown({0, 9})})

WaitSpec == Init /\ [][WaitNext]_vars

\* the last step fetched a read-key
AtReadKey == Fetched /\ OpFamily = 15 /\ OpNN = 10

\* C25: a step at a read-key (Fx0A) completes normally; with no key down it
\* leaves pc, all registers, I, memory, the stack, sp and the framebuffer
\* unchanged and decrements each nonzero timer by 1; with a key down (255,
\* as the host loop writes it) it completes the instruction: V[x] is the
\* index of a key that is down and pc has advanced by 2.
C25_KeyWaitStalls ==
    AtReadKey =>
        /\ alive
        /\ delay_timer = CountDown(Before.delay_timer)
        /\ sound_timer = CountDown(Before.sound_timer)
        /\ (\A k \in 0..(NumKeys - 1) : Before.keys[k] = 0) =>
              /\ pc = Before.pc
              /\ v = Before.v
              /\ i = Before.i
              /\ memory = Before.memory
              /\ stack = Before.stack
              /\ sp = Before.sp
              /\ gfx = Before.gfx
        /\ (\E k \in 0..(NumKeys - 1) : Before.keys[k] = KeyDown) =>
              /\ pc = Before.pc + 2
              /\ v[OpX] \in 0..(NumKeys - 1)
              /\ Before.keys[v[OpX]] = KeyDown

\* a step that stalled with the delay timer running, and then a step with
\* key 5 down that completed the instruction
C25_Witness ==
    /\ AtReadKey /\ alive /\ Len(trace) >= 2
    /\ Before2.pc = Before.pc /\ Before.opcode = Word
    /\ Before2.delay_timer > 1 /\ Before.delay_timer = Before2.delay_timer - 1
    /\ Before2.keys = NoKeys
    /\ Before.keys = KeysDown({5})
    /\ v[OpX] = 5 /\ pc = Before.pc + 2

(***************************************************************************)
(* A host that calls the four public methods in any order, load_game at    *)
(* most MaxLoads times, and remembers the machine before each step.  The   *)
(* ROM draws a glyph, changes a register and clears, in a loop:            *)
(* D005 6A01 00E0 1200.                                                    *)
(***************************************************************************)
FrameRom ==
    RomFile(RomBytes(<<Ins(13, 0, 0, 5), LdImm(10, 1), Ins(0, 0, 14, 0),
                       Ins(1, 2, 0, 0)>>))

FrameNext ==
    \/ /\ loads < MaxLoads
       /\ \E file \in {FrameRom, NoSuchFile} : LoadGame(file)
    \/ /\ loads > 0
       /\ EmulateCycle
       /\ trace' = Remember(Self)
    \/ DrawFlag
    \/ \E ks \in {NoKeys, KeysDown({5})} : SetKeys(ks)

FrameSpec == Init /\ [][FrameNext]_vars

\* the framebuffer with every pixel off
Blank == [row \in 0..(GfxHeight - 1) |-> [col \in 0..(GfxWidth - 1) |-> 0]]

\* C26: the framebuffer is changed only by clear and draw: a step that
\* executes any other instruction, a load, a key-state update and a read of
\* the display-changed flag leave all 64x32 pixels unchanged; a clear sets
\* every pixel to 0 and marks the display changed.
C26_FramebufferFrame ==
    [][ /\ (last'.call = "emulate_cycle" /\ ~AtClearOrDraw) => gfx' = gfx
        /\ last'.call \in {"load_game", "draw_flag", "set_keys"} => gfx' = gfx
        /\ (last'.call = "emulate_cycle" /\ alive' /\ pc + 1 < MemSize
                /\ memory[pc] * 256 + memory[pc + 1] = 224) =>
              (gfx' = Blank /\ screen_updated') ]_vars

\* a clear has blanked a framebuffer that showed a glyph and whose change
\* flag had been read, after a second load
C26_Witness ==
    /\ Fetched /\ alive /\ Word = 224 /\ loads = 2
    /\ Before.gfx[0][0] = 1 /\ ~Before.screen_updated
    /\ gfx = Blank /\ screen_updated

(***************************************************************************)
(* ROMs that drive I up by index-add and then access memory through it:    *)
(*   0x200 6AFF  0x202 6Bcc  0x204 AFFF  0x206 3B00  0x208 1210  0x20A 6Aee *)
(*   0x20C FA1E  0x20E word  0x210 FA1E  0x212 7BFF  0x214 1206            *)
(* so that the word under test runs with I = 4095 + 255 * cc + ee.         *)
(***************************************************************************)
\* how many times the loop adds 255 to I to bring it close to 65535
MaxAdds == 240

IndexRom(count, extra, word) ==
    RomFile(RomBytes(<<LdImm(10, 255), LdImm(11, count), Ins(10, 15, 15, 15),
                       Ins(3, 11, 0, 0), Ins(1, 2, 1, 0), LdImm(10, extra),
                       Ins(15, 10, 1, 14), word, Ins(15, 10, 1, 14),
                       Ins(7, 11, 15, 15), Ins(1, 2, 0, 6)>>))

\* draw of 2 rows, store-bcd, reg-dump and reg-load of V0..V2, reg-load of V0
IndexWords ==
    {Ins(13, 0, 1, 2), Ins(15, 3, 3, 3), Ins(15, 2, 5, 5), Ins(15, 2, 6, 5),
     Ins(15, 0, 6, 5)}

IndexFiles ==
    { IndexRom(0, extra, word) : extra \in {0, 1, 2, 255}, word \in IndexWords }
    \cup { IndexRom(MaxAdds, extra, word) :
             extra \in {238, 240}, word \in {Ins(13, 0, 1, 2), Ins(15, 2, 5, 5)} }
    \cup {NoSuchFile}

IndexNext == application(IndexFiles, {NoKeys})

IndexSpec == Init /\ [][IndexNext]_vars

\* the last step fetched a draw, store-bcd, reg-dump or reg-load
AtMemoryAccess ==
    Fetched /\ (OpFamily = 13 \/ (OpFamily = 15 /\ OpNN \in {51, 85, 101}))

\* the greatest offset from I that instruction accesses (-1: none)
LastOffset ==
    IF OpFamily = 13 THEN OpN - 1
    ELSE IF OpNN = 51 THEN 2
    ELSE OpX

\* C27: when a draw, store-bcd, reg-dump or reg-load accesses an address
\* I + offset of 4096 or more, the step stops execution with a fatal error,
\* and nothing is read or written at a wrapped address in its place: no
\* memory cell below I is changed, no register is loaded from and no sprite
\* row is drawn from an offset whose address is out of range.
C27_OutOfRangeIsFatal ==
    (AtMemoryAccess /\ Before.i + LastOffset >= MemSize) =>
        /\ ~alive
        /\ \A a \in 0..(MemSize - 1) : a < Before.i => memory[a] = Before.memory[a]
        /\ (OpFamily = 15 /\ OpNN = 101) =>
              \A r \in 0..OpX : Before.i + r >= MemSize => v[r] = Before.v[r]
        /\ (OpFamily = 13 /\ Before.i >= MemSize) => gfx = Before.gfx

\* a reg-dump of V0..V2 with I = 4095 has stopped with a fatal error after its
\* first cell, and the glyph byte at address 0, where I + 1 would wrap to, is
\* not overwritten by V1
C27_Witness ==
    /\ AtMemoryAccess /\ OpFamily = 15 /\ OpNN = 85 /\ OpX = 2
    /\ Before.i = MemSize - 1
    /\ ~alive
    /\ Before.v[1] # CHIP8_FONTSET[1] /\ memory[0] = CHIP8_FONTSET[1]

(***************************************************************************)
(* The loop of application() with its rendering and its way out:           *)
(* emulate_cycle, draw_flag and, if it returned true, render; then the     *)
(* pending events, of which a Quit or Escape leaves the loop, a resize     *)
(* renders and a key sets its entry of the array handed to set_keys.       *)
(***************************************************************************)
\* render(&emu, ..) reads emu.gfx and changes nothing of the machine
Render ==
    /\ alive
    /\ last' = [call |-> "render", arg |-> <<>>, result |-> "()"]
    /\ UNCHANGED <<opcode, memory, v, i, pc, gfx, delay_timer, sound_timer, stack,
                   sp, keys, screen_updated, alive, overflow_checks, loads, trace>>

\* break 'running
Quit ==
    /\ alive
    /\ last' = [call |-> "quit", arg |-> <<>>, result |-> "()"]
    /\ UNCHANGED <<opcode, memory, v, i, pc, gfx, delay_timer, sound_timer, stack,
                   sp, keys, screen_updated, alive, overflow_checks, loads, trace>>

\* draw a glyph, set a register, wait for a key, clear, start again
HostRom ==
    RomFile(RomBytes(<<Ins(13, 0, 0, 5), LdImm(10, 1), Ins(15, 11, 0, 10),
                       Ins(0, 0, 14, 0), Ins(1, 2, 0, 0)>>))

HostKeys == {NoKeys, KeysDown({5}), KeysDown({0, 15})}

\* the loop has read the flag, rendered if it was set, and is at its events
PollingEvents ==
    \/ last.call = "draw_flag" /\ last.result = "false"
    \/ last.call = "render"

HostNext ==
    \/ /\ last.call = "default"
       /\ \E file \in {HostRom, NoSuchFile} : LoadGame(file)
    \/ Exit
    \/ /\ \/ last.call = "load_game" /\ last.result = "Ok"
          \/ last.call = "set_keys"
       /\ EmulateCycle
       /\ trace' = Remember(Self)
    \/ /\ last.call = "emulate_cycle"
       /\ DrawFlag
    \/ /\ last.call = "draw_flag" /\ last.result = "true"
       /\ Render
    \/ /\ PollingEvents
       /\ Render
    \/ /\ PollingEvents
       /\ Quit
    \/ /\ PollingEvents
       /\ \E ks \in HostKeys : SetKeys(ks)

HostSpec == Init /\ [][HostNext]_vars

\* the last step ran a clear or a draw to its end
ClearedOrDrew == Fetched /\ alive /\ (Word = 224 \/ OpFamily = 13)

\* C28: the host takes one step, then reads the display-changed flag and
\* renders if it is true, then replaces the key state: a step that executed
\* a clear or a draw is followed by a read returning true and that by a
\* render, before any further step; the flag is false at the start of every
\* step; and the key state a step sees is the array the preceding iteration
\* handed over, all zeros for the first step.
C28_HostLoopOrdering ==
    [][/\ ClearedOrDrew => (last'.call = "draw_flag" /\ last'.result = "true")
       /\ (last.call = "draw_flag" /\ last.result = "true") => last'.call = "render"
       /\ last.call = "emulate_cycle" => last'.call = "draw_flag"
       /\ last'.call = "emulate_cycle" =>
             /\ ~screen_updated
             /\ last.call \in {"load_game", "set_keys"}
             /\ keys = (IF last.call = "set_keys" THEN last.arg ELSE NoKeys)
       /\ last'.call = "set_keys" => keys' = last'.arg]_vars

\* a draw has been rendered, the keys 0 and F have been handed over, and the
\* step waiting for a key has seen exactly them with the flag down
C28_Witness ==
    /\ Fetched /\ alive /\ OpFamily = 15 /\ OpNN = 10
    /\ Len(trace) = 2 /\ Before.keys = KeysDown({0, 15}) /\ ~Before.screen_updated
    /\ v[11] = 0
    /\ keys = KeysDown({0, 15})

(***************************************************************************)
(* ROMs that return with nothing on the stack: at once, after calls that   *)
(* have returned, and after writing an instruction over the first glyph    *)
(* (A000 6012 6100 F155 00EE leaves the word 1200 at address 0, A000 6012   *)
(* F055 00EE the word 1290).                                               *)
(***************************************************************************)
OverwriteRom(x) ==
    RomFile(RomBytes(<<Ins(10, 0, 0, 0), LdImm(0, 18), LdImm(1, 0),
                       Ins(15, x, 5, 5), Ins(0, 0, 14, 14)>>))

EmptyReturnFiles ==
    { ReturnRom(depth) : depth \in {0, 1, 2, MaxNest} }
    \cup { OverwriteRom(x) : x \in {0, 1} }
    \cup {NoSuchFile}

EmptyReturnNext == application(EmptyReturnFiles, {NoKeys})

EmptyReturnSpec == Init /\ [][EmptyReturnNext]_vars

\* the step before the last one fetched a return with the stack empty
ReturnedOnEmpty ==
    /\ Stepped /\ Len(trace) >= 2
    /\ Before2.pc + 1 < MemSize
    /\ Before2.memory[Before2.pc] * 256 + Before2.memory[Before2.pc + 1] = 238
    /\ Before2.sp = 0

KeyIndexValues == {0, 5, 15, 16, 21, 255}

KeyIndexFiles ==
    { RomFile(RomBytes(<<LdImm(x, k), Ins(14, x, lo[1], lo[2])>>)) :
        x \in {0, 11, 15}, k \in KeyIndexValues, lo \in {<<9, 14>>, <<10, 1>>} }

\* key 5 held as 1
KeyIndexBytes ==
    { NoKeys, KeysDown({5}), KeysDown({0, 15}),
      [k \in 0..(NumKeys - 1) |-> IF k = 5 THEN 1 ELSE 0] }

KeyIndexNext ==
    \/ /\ last.call = "default"
       /\ \E file \in KeyIndexFiles : LoadGame(file)
    \/ /\ last.call # "default"
       /\ EmulateCycle
       /\ trace' = Remember(Self)
    \/ /\ last.call # "default"
       /\ \E ks \in KeyIndexBytes : SetKeys(ks)

KeyIndexSpec == Init /\ [][KeyIndexNext]_vars

\* C30: a step that executes skip-key-pressed (Ex9E) or skip-key-not-pressed
\* (ExA1) with V[x] in 0..15 consults key-state entry V[x], nonzero meaning
\* pressed, and sets pc to pc+4 if the condition holds and to pc+2 if not;
\* with V[x] of 16 or more it stops with a fatal error and leaves pc
\* unchanged, whatever entry V[x] mod 16 holds.
C30_KeyIndexNotMasked ==
    (Fetched /\ OpFamily = 14 /\ OpNN \in {158, 161}) =>
        IF Before.v[OpX] < NumKeys
        THEN /\ alive
             /\ pc = Before.pc +
                     (IF (Before.keys[Before.v[OpX]] # 0) = (OpNN = 158) THEN 4 ELSE 2)
        ELSE ~alive /\ pc = Before.pc

\* skip-key-pressed on V[B] = 21 while key 5 is down has stopped with a fatal
\* error and not skipped
C30_Witness ==
    /\ Fetched /\ OpFamily = 14 /\ OpNN = 158 /\ OpX = 11
    /\ Before.v[11] = 21 /\ Before.keys[5] = KeyDown
    /\ ~alive /\ pc = Before.pc

(***************************************************************************)
(* ROMs that set a timer and read the delay timer in the next step, then   *)
(* spin: 6xvv Fx15 Fy07 1206 or 6xvv Fx18 Fy07 1206.                        *)
(***************************************************************************)
SetTimerValues == {0, 1, 2, 255}

SetTimerFiles ==
    { RomFile(RomBytes(<<LdImm(x, t), Ins(15, x, 1, lo), Ins(15, y, 0, 7),
                         Ins(1, 2, 0, 6)>>)) :
        x \in {0, 10, 15}, y \in {0, 11}, t \in SetTimerValues, lo \in {5, 8} }
    \cup {NoSuchFile}

SetTimerNext == application(SetTimerFiles, {NoKeys})

SetTimerSpec == Init /\ [][SetTimerNext]_vars

\* the register named by the instruction of the step before the last one
PrevX == (Before.opcode \div 256) % 16

\* C31: a timer is decremented in the step that sets it: after a step that
\* executes set-delay or set-sound with V[x] = t the timer is max(0, t-1);
\* a read-delay in the very next step stores max(0, t-1) in its register;
\* and after set-sound with V[x] = 1 the sound timer is 0 at the end of that
\* step and of the step after it.
C31_TimerSetAndDecremented ==
    /\ (Fetched /\ alive /\ Word \in SetDelayWords) =>
          delay_timer = CountDown(Before.v[OpX])
    /\ (Fetched /\ alive /\ Word \in SetSoundWords) =>
          sound_timer = CountDown(Before.v[OpX])
    /\ (SteppedTwice /\ OpFamily = 15 /\ OpNN = 7 /\ Before.opcode \in SetDelayWords) =>
          v[OpX] = CountDown(Before2.v[PrevX])
    /\ (SteppedTwice /\ Before.opcode \in SetSoundWords /\ Before2.v[PrevX] = 1
          /\ Word \notin SetSoundWords) =>
          (Before.sound_timer = 0 /\ sound_timer = 0)

\* set-delay with V[A] = 2 and then read-delay into V[B], which holds 1
C31_Witness ==
    /\ SteppedTwice /\ OpFamily = 15 /\ OpNN = 7 /\ OpX = 11
    /\ Before.opcode = Ins(15, 10, 1, 5)
    /\ Before2.v[10] = 2 /\ Before.delay_timer = 1
    /\ v[11] = 1 /\ delay_timer = 0

(***************************************************************************)
(* ROMs that draw a sprite, draw it again one column to the right over     *)
(* what the first draw left, clear, draw once more and spin:               *)
(*   6xvv 6yww Annn Dxyn 7x01 Dxyn 00E0 Dxyn 1210, sprite data behind.     *)
(***************************************************************************)
PixelRom(x, y, vx, vy, n, addr) ==
    RomFile(RomBytes(<<LdImm(x, vx), LdImm(y, vy), Ins(10, 0, 0, 0) + addr,
                       Ins(13, x, y, n), Ins(7, x, 0, 1), Ins(13, x, y, n),
                       Ins(0, 0, 14, 0), Ins(13, x, y, n), Ins(1, 2, 1, 0)>>)
            \o SpriteData)

PixelFiles ==
    { PixelRom(xy[1], xy[2], vx, vy, n, addr) :
        xy \in {<<0, 1>>, <<4, 4>>, <<15, 1>>}, vx \in {0, 60, 255}, vy \in {0, 30},
        n \in {1, 5, 15}, addr \in {0, ProgStart + 18} }
    \cup {NoSuchFile}

PixelNext == application(PixelFiles, {NoKeys})

PixelSpec == Init /\ [][PixelNext]_vars

\* C32: every framebuffer cell holds 0 or 1 in every reachable state: all
\* cells are 0 after construction, a clear writes 0 to all of them, and a
\* draw changes a cell only between 0 and 1.
C32_PixelsAreBits ==
    /\ \A row \in 0..(GfxHeight - 1), col \in 0..(GfxWidth - 1) : gfx[row][col] \in {0, 1}
    /\ last.call = "default" => gfx = Blank
    /\ (Fetched /\ alive /\ Word = 224) => gfx = Blank

\* a draw over what an earlier draw left has turned a lit pixel off and an
\* unlit pixel on
C32_Witness ==
    /\ Fetched /\ alive /\ OpFamily = 13
    /\ \E row \in 0..(GfxHeight - 1), col \in 0..(GfxWidth - 1) :
          Before.gfx[row][col] = 1 /\ gfx[row][col] = 0
    /\ \E row \in 0..(GfxHeight - 1), col \in 0..(GfxWidth - 1) :
          Before.gfx[row][col] = 0 /\ gfx[row][col] = 1

====
